---- MODULE Spec2Model ----
(***************************************************************************)
(* Model of point_cloud_sampling.py: the strict 1/k downsampling sampler   *)
(* (sample_point_cloud_downsampling), the writer (save_point_cloud) and    *)
(* the directory driver (process_input).                                   *)
(*                                                                         *)
(* Conventions.                                                            *)
(*  - Indices are 1-based here; index j of the model is Python index j-1.  *)
(*  - An optional value (Python None or a value) is a sequence of length   *)
(*    0 or 1: None is <<>> and the value x is <<x>>.                       *)
(*  - Coordinates are integers.  A mean is kept as the exact rational      *)
(*    [num |-> sums, den |-> count]; num has one entry per component of    *)
(*    the numpy row it stands for (3 for an xyz row, 1 for a scalar).      *)
(*  - A colour component is an integer number of 1/ColorScale steps.  A    *)
(*    real r = +-sqrt(sq/den)/ColorScale is kept as                        *)
(*    [neg |-> r < 0, sq |-> sq, den |-> den].                             *)
(***************************************************************************)
EXTENDS Integers, Sequences, FiniteSets

VARIABLES
    points,                 \* the PointSet: sequence of <<x, y, z>>
    colors,                 \* optional ColorSet: None or <<sequence of <<r, g, b>>>>
    k,                      \* the -k/--neighbors argument
    batch_size,             \* the batch_size parameter
    pc,                     \* position in the call
    error,                  \* exception that ended the call, "none" if none
    num_samples,            \* line 41
    sampled_indices,        \* line 42
    tree,                   \* line 51: None, or <<order>>, the tree's natural order
    i,                      \* loop variable of line 53 (0-based offset)
    final_sampled_points,   \* line 45 / 58
    final_sampled_colors,   \* line 46 / 62 (optional)
    query_log,              \* the queries of line 55 so far: [anchor, row]
    query_calls,            \* number of tree.query calls issued
    processed,              \* the count logged at line 64
    ret_points,             \* returned points (line 67)
    ret_colors,             \* returned colours (line 67, optional)
    written,                \* the output file: None or <<[points, colors]>>
    dir_entries,            \* os.listdir(input_path): sequence of [name, npoints]
    dir_pos,                \* position of the for loop of line 83
    dir_events,             \* the steps run so far: sequence of [file, step]
    dir_written             \* entries whose output file was written

vars == <<points, colors, k, batch_size, pc, error, num_samples, sampled_indices,
          tree, i, final_sampled_points, final_sampled_colors, query_log,
          query_calls, processed, ret_points, ret_colors, written,
          dir_entries, dir_pos, dir_events, dir_written>>

dir_vars == <<dir_entries, dir_pos, dir_events, dir_written>>

-----------------------------------------------------------------------------
(* Bounds of the model. *)

MaxN == 4
MaxK == 4
MaxNegK == 1
MaxBatch == 2
ColorScale == 2
MaxFiles == 3
MaxDirN == 2

(* The default of the batch_size parameter. *)
DefaultBatchSize == 10000

None == <<>>
Some(x) == <<x>>
IsNone(o) == o = <<>>
Val(o) == o[1]

Min(a, b) == IF a <= b THEN a ELSE b

PointValues == {<<0, 0, 0>>, <<1, 2, 3>>}

(* A colour with components below 0 and above 1, and one inside [0, 1]. *)
OutOfRangeColor == <<0 - 1, 0, ColorScale + 1>>

InRangeColor == <<1, ColorScale, 0>>

ColorValues == {OutOfRangeColor, InRangeColor}

KValues == (0 - MaxNegK) .. MaxK

BatchSizes == (1 .. MaxBatch) \cup {DefaultBatchSize}

SeqsOfLen(S, n) == [1..n -> S]

RECURSIVE SumOver(_, _)
SumOver(f, S) ==
    IF S = {} THEN 0
    ELSE LET x == CHOOSE y \in S : TRUE IN f[x] + SumOver(f, S \ {x})

-----------------------------------------------------------------------------
(* A division that rounds up instead of down. *)
FloorDivRoundsUp(a, b) ==
    IF b > 0 THEN (a + b - 1) \div b ELSE (0 - a) \div (0 - b)

(* Python's // on integers: the floor of a / b, for b # 0.  \div floors for  *)
(* a positive divisor, and a / b = (-a) / (-b).                             *)
FloorDiv(a, b) == IF b > 0 THEN a \div b ELSE (0 - a) \div (0 - b)

(* A draw with replacement: any size indices of the population. *)
ChoicesWithReplacement(n, size) == SeqsOfLen(1..n, size)

(* np.random.choice(n, size, replace=False): the arrays it may return, size *)
(* pairwise distinct indices of the population 1..n, in any order.          *)
Choices(n, size) ==
    {s \in SeqsOfLen(1..n, size) :
        \A a, b \in 1..size : a # b => s[a] # s[b]}

(* cKDTree(points): the index is built once over all the points.  What the  *)
(* build fixes, beyond the points, is the order in which the tree yields    *)
(* equidistant points; the orders considered are by index, up and down.     *)
TreeOrders(n) == {[j \in 1..n |-> j], [j \in 1..n |-> n + 1 - j]}

Dist2(p, q) ==
    (p[1] - q[1]) * (p[1] - q[1]) + (p[2] - q[2]) * (p[2] - q[2])
        + (p[3] - q[3]) * (p[3] - q[3])

OrderPos(order, a) == CHOOSE p \in 1..Len(order) : order[p] = a

(* a is yielded before b by a query at x. *)
Nearer(pts, order, x, a, b) ==
    \/ Dist2(pts[a], x) < Dist2(pts[b], x)
    \/ /\ Dist2(pts[a], x) = Dist2(pts[b], x)
       /\ OrderPos(order, a) < OrderPos(order, b)

(* One row of tree.query(x, k=kk): the kk nearest indices, nearest first.   *)
QueryRow(pts, order, x, kk) ==
    [r \in 1..kk |->
        CHOOSE a \in 1..Len(pts) :
            Cardinality({b \in 1..Len(pts) : Nearer(pts, order, x, b, a)}) = r - 1]

(* tree.query(batch, k=kk) for a batch of M query points: idx has shape     *)
(* (M, kk), but with kk = 1 the last dimension is squeezed and idx has      *)
(* shape (M,).                                                              *)
TreeQuery(pts, order, batch, kk) ==
    [squeezed |-> kk = 1,
     rows |-> [m \in 1..Len(batch) |-> QueryRow(pts, order, batch[m], kk)]]

(* arr[idx], numpy's indexing of an array by an index array: one row of    *)
(* elements of arr per row of idx.  With idx of shape (M, k), arr[idx] is   *)
(* (M, k, 3); with idx of shape (M,), it is (M, 3).                         *)
Take(arr, idx) ==
    [squeezed |-> idx.squeezed,
     rows |-> [m \in 1..Len(idx.rows) |->
                 [r \in 1..Len(idx.rows[m]) |-> arr[idx.rows[m][r]]]]]

(* Line 57, points[idx]. *)
PointsAt(pts, idx) == Take(pts, idx)

(* The colours gathered with the rows of idx in the opposite order. *)
ColorsAtReversed(cols, idx) ==
    Take(cols, [squeezed |-> idx.squeezed,
                rows |-> [m \in 1..Len(idx.rows) |->
                             idx.rows[Len(idx.rows) + 1 - m]]])

(* Line 61, colors[idx]. *)
ColorsAt(cols, idx) == Take(cols, idx)

(* np.mean(a, axis=1).  For a of shape (M, k, 3) axis 1 runs over the k     *)
(* neighbours and the result is (M, 3); for a of shape (M, 3) axis 1 runs   *)
(* over the coordinates and the result is (M,).                             *)
MeanAxis1(a) ==
    [m \in 1..Len(a.rows) |->
        LET row == a.rows[m] IN
        IF a.squeezed
        THEN [num |-> <<row[1][1] + row[1][2] + row[1][3]>>, den |-> 3]
        ELSE [num |-> [c \in 1..3 |->
                          SumOver([r \in 1..Len(row) |-> row[r][c]], 1..Len(row))],
              den |-> Len(row)]]

(* np.mean(a ** 2, axis=1) ** 0.5, with the same two shapes: one root per   *)
(* channel for (M, k, 3), a single root per row for (M, 3).                 *)
RootMeanSquareAxis1(a) ==
    [m \in 1..Len(a.rows) |->
        LET row == a.rows[m] IN
        IF a.squeezed
        THEN <<[neg |-> FALSE,
                sq |-> row[1][1] * row[1][1] + row[1][2] * row[1][2]
                       + row[1][3] * row[1][3],
                den |-> 3]>>
        ELSE [c \in 1..3 |->
                [neg |-> FALSE,
                 sq |-> SumOver([r \in 1..Len(row) |-> row[r][c] * row[r][c]],
                                1..Len(row)),
                 den |-> Len(row)]]]

(* The elements of a set of integers, in increasing order. *)
Ascending(S) ==
    [m \in 1..Cardinality(S) |->
        CHOOSE x \in S : Cardinality({y \in S : y < x}) = m - 1]

(* sampled_points[i:i + batch_size]: the positions of the slice.            *)
BatchSlice(len, at, size) == (at + 1) .. Min(at + size, len)

(* A step of the loop that is one too long. *)
NextOffsetSkipsOne(at, size) == at + size + 1

(* The offset of the next batch: range(0, len, batch_size).                 *)
NextOffset(at, size) == at + size

(* A clip that has a lower bound only. *)
ClipLowerOnly(c) ==
    IF c.neg /\ c.sq > 0 THEN [neg |-> FALSE, sq |-> 0, den |-> 1] ELSE c

(* np.clip(c, 0, 1) on one component.                                       *)
Clip(c) ==
    IF c.neg /\ c.sq > 0 THEN [neg |-> FALSE, sq |-> 0, den |-> 1]
    ELSE IF c.sq > c.den * ColorScale * ColorScale
         THEN [neg |-> FALSE, sq |-> ColorScale * ColorScale, den |-> 1]
         ELSE c

ClipAll(cols) ==
    [m \in 1..Len(cols) |-> [c \in 1..Len(cols[m]) |-> Clip(cols[m][c])]]

(* o3d.utility.Vector3dVector(a) accepts an array of shape (M, 3) only; an  *)
(* empty list gives np.array([]) of shape (0,), a list of scalars (M,).     *)
IsMx3(a) == Len(a) > 0 /\ \A m \in 1..Len(a) : Len(a[m].num) = 3

-----------------------------------------------------------------------------
(* One call of sample_point_cloud_downsampling(points, colors, k,           *)
(* batch_size), followed by save_point_cloud of what it returned, as        *)
(* process_input does for one file.                                         *)

N == Len(points)

(* sampled_points = points[sampled_indices] *)
SampledPoints == [j \in 1..Len(sampled_indices) |-> points[sampled_indices[j]]]

PointSets == UNION {SeqsOfLen(PointValues, n) : n \in 0..MaxN}

(* The colours of a file: none at all, or one per point (line 21); an empty *)
(* cloud has none.  The colour sets considered are a uniform one and one    *)
(* that varies from point to point.                                         *)
ColorSets(n) ==
    IF n = 0 THEN {None}
    ELSE {None,
          Some([j \in 1..n |-> OutOfRangeColor]),
          Some([j \in 1..n |-> IF j % 2 = 1 THEN InRangeColor
                               ELSE OutOfRangeColor])}

DirIdle ==
    /\ dir_entries = <<>>
    /\ dir_pos = 0
    /\ dir_events = <<>>
    /\ dir_written = {}

Init ==
    /\ points \in PointSets
    /\ colors \in ColorSets(Len(points))
    /\ k \in KValues
    /\ batch_size \in BatchSizes
    /\ pc = "start"
    /\ error = "none"
    /\ num_samples = 0
    /\ sampled_indices = <<>>
    /\ tree = None
    /\ i = 0
    /\ final_sampled_points = <<>>
    /\ final_sampled_colors = None
    /\ query_log = <<>>
    /\ query_calls = 0
    /\ processed = 0
    /\ ret_points = <<>>
    /\ ret_colors = None
    /\ written = None
    /\ DirIdle

(* Line 41: num_samples = len(points) // k. *)
ComputeNumSamples ==
    /\ pc = "start"
    /\ IF k = 0
       THEN /\ pc' = "raised"
            /\ error' = "ZeroDivisionError"
            /\ UNCHANGED num_samples
       ELSE /\ num_samples' = FloorDiv(N, k)
            /\ pc' = "select"
            /\ UNCHANGED error
    /\ UNCHANGED <<points, colors, k, batch_size, sampled_indices, tree, i,
                   final_sampled_points, final_sampled_colors, query_log,
                   query_calls, processed, ret_points, ret_colors, written>>
    /\ UNCHANGED dir_vars

(* Lines 42-43: the anchors are drawn without replacement; a negative size  *)
(* is refused by np.random.choice.                                          *)
SelectAnchors ==
    /\ pc = "select"
    /\ IF num_samples < 0
       THEN /\ pc' = "raised"
            /\ error' = "ValueError"
            /\ UNCHANGED sampled_indices
       ELSE /\ sampled_indices' \in Choices(N, num_samples)
            /\ pc' = "build"
            /\ UNCHANGED error
    /\ UNCHANGED <<points, colors, k, batch_size, num_samples, tree, i,
                   final_sampled_points, final_sampled_colors, query_log,
                   query_calls, processed, ret_points, ret_colors, written>>
    /\ UNCHANGED dir_vars

(* Lines 45-51: the output lists, and the tree built once over all points.  *)
BuildTree ==
    /\ pc = "build"
    /\ final_sampled_points' = <<>>
    /\ final_sampled_colors' = IF IsNone(colors) THEN None ELSE Some(<<>>)
    /\ tree' \in {Some(o) : o \in TreeOrders(N)}
    /\ i' = 0
    /\ pc' = "loop"
    /\ UNCHANGED <<points, colors, k, batch_size, error, num_samples,
                   sampled_indices, query_log, query_calls, processed,
                   ret_points, ret_colors, written>>
    /\ UNCHANGED dir_vars

(* Lines 53-64: one iteration of the batch loop. *)
ProcessBatch ==
    /\ pc = "loop"
    /\ i < Len(SampledPoints)
    /\ LET at == Ascending(BatchSlice(Len(SampledPoints), i, batch_size))
           batch == [m \in 1..Len(at) |-> SampledPoints[at[m]]]
           idx == TreeQuery(points, Val(tree), batch, k)
       IN  /\ final_sampled_points' =
                 final_sampled_points \o MeanAxis1(PointsAt(points, idx))
           /\ final_sampled_colors' =
                 IF IsNone(colors) THEN final_sampled_colors
                 ELSE Some(Val(final_sampled_colors)
                             \o RootMeanSquareAxis1(ColorsAt(Val(colors), idx)))
           /\ query_log' =
                 query_log \o [m \in 1..Len(at) |->
                                 [anchor |-> at[m], row |-> idx.rows[m]]]
           /\ processed' = i + Len(batch)
    /\ query_calls' = query_calls + 1
    /\ i' = NextOffset(i, batch_size)
    /\ UNCHANGED <<points, colors, k, batch_size, pc, error, num_samples,
                   sampled_indices, tree, ret_points, ret_colors, written>>
    /\ UNCHANGED dir_vars

(* Lines 66-67: the loop is exhausted and the lists are returned as arrays. *)
Return ==
    /\ pc = "loop"
    /\ i >= Len(SampledPoints)
    /\ ret_points' = final_sampled_points
    /\ ret_colors' = IF IsNone(colors) THEN None ELSE final_sampled_colors
    /\ pc' = "returned"
    /\ UNCHANGED <<points, colors, k, batch_size, error, num_samples,
                   sampled_indices, tree, i, final_sampled_points,
                   final_sampled_colors, query_log, query_calls, processed, written>>
    /\ UNCHANGED dir_vars

(* Lines 23-35: save_point_cloud(sampled_points, sampled_colors, ...).      *)
(* Line 31 raises unless the points are an (M, 3) array; the colours are    *)
(* clipped at line 33; write_point_cloud reports a failed write by its      *)
(* return value, which is not looked at.                                    *)
SavePointCloud ==
    /\ pc = "returned"
    /\ IF ~IsMx3(ret_points)
       THEN /\ pc' = "save_raised"
            /\ error' = "RuntimeError"
            /\ UNCHANGED written
       ELSE /\ \E ok \in BOOLEAN :
                 written' =
                    IF ok
                    THEN Some([points |-> ret_points,
                               colors |-> IF IsNone(ret_colors) THEN None
                                          ELSE Some(ClipAll(Val(ret_colors)))])
                    ELSE None
            /\ pc' = "saved"
            /\ UNCHANGED error
    /\ UNCHANGED <<points, colors, k, batch_size, num_samples, sampled_indices,
                   tree, i, final_sampled_points, final_sampled_colors, query_log,
                   query_calls, processed, ret_points, ret_colors>>
    /\ UNCHANGED dir_vars

Next ==
    \/ ComputeNumSamples
    \/ SelectAnchors
    \/ BuildTree
    \/ ProcessBatch
    \/ Return
    \/ SavePointCloud

Spec == Init /\ [][Next]_vars

-----------------------------------------------------------------------------
(* What a whole call of the sampler comes to, as a function of the number   *)
(* of points n and of kk: the exception that ends it, or the shape of the   *)
(* points it returns.  SamplerSummary ties these to the actions above.      *)

(* The exception of lines 41-42, "none" when the call returns. *)
SamplerError(n, kk) ==
    IF kk = 0 THEN "ZeroDivisionError"
    ELSE IF FloorDiv(n, kk) < 0 THEN "ValueError"
    ELSE "none"

(* The number of entries returned. *)
SamplerCount(n, kk) == FloorDiv(n, kk)

(* The returned points are an (M, 3) array with M >= 1. *)
SamplerReturnsMx3(n, kk) == FloorDiv(n, kk) >= 1 /\ kk # 1

SamplerSummary ==
    /\ pc = "raised" => error = SamplerError(N, k)
    /\ pc \in {"returned", "saved", "save_raised"} =>
          /\ SamplerError(N, k) = "none"
          /\ Len(ret_points) = SamplerCount(N, k)
          /\ IsMx3(ret_points) <=> SamplerReturnsMx3(N, k)

-----------------------------------------------------------------------------
(* process_input on a directory (lines 78-90).  A file name is the sequence *)
(* of its stem and its suffixes; a file's content is its number of points.  *)

FileNames == {<<"a", ".ply">>, <<"b", ".pcd">>, <<"c", ".txt">>,
              <<"d", ".ply", ".txt">>}

(* file_name.endswith(suffix) *)
EndsWith(name, suffix) == name[Len(name)] = suffix

(* A test that looks for the suffix anywhere in the name. *)
EligibleAnywhere(name) ==
    \E t \in 1..Len(name) : name[t] \in {".ply", ".pcd"}

(* Line 84. *)
Eligible(name) == EndsWith(name, ".ply") \/ EndsWith(name, ".pcd")

(* Lines 25-26: os.path.splitext(input_filename)[0] names the output. *)
OutputName(name) == SubSeq(name, 1, Len(name) - 1)

(* os.listdir: files of distinct names, in any order. *)
Listings ==
    UNION {{e \in SeqsOfLen([name : FileNames, npoints : 0..MaxDirN], n) :
               \A a, b \in 1..n : a # b => e[a].name # e[b].name}
           : n \in 0..MaxFiles}

DirKValues == (0 - MaxNegK) .. (MaxDirN + 1)

SamplerIdle ==
    /\ points = <<>>
    /\ colors = None
    /\ batch_size = DefaultBatchSize
    /\ sampled_indices = <<>>
    /\ tree = None
    /\ i = 0
    /\ final_sampled_points = <<>>
    /\ final_sampled_colors = None
    /\ query_log = <<>>
    /\ query_calls = 0
    /\ processed = 0
    /\ ret_points = <<>>
    /\ ret_colors = None
    /\ written = None

InitDir ==
    /\ dir_entries \in Listings
    /\ k \in DirKValues
    /\ pc = "dir_start"
    /\ error = "none"
    /\ dir_pos = 0
    /\ dir_events = <<>>
    /\ dir_written = {}
    /\ num_samples = 0
    /\ SamplerIdle

Event(step) == [file |-> dir_pos, step |-> step]

(* Lines 79-83: the output directory is made and the listing is entered. *)
DirStart ==
    /\ pc = "dir_start"
    /\ dir_pos' = 1
    /\ pc' = "dir_next"
    /\ UNCHANGED <<k, error, num_samples, dir_entries, dir_events, dir_written>>
    /\ UNCHANGED <<points, colors, batch_size, sampled_indices, tree, i,
                   final_sampled_points, final_sampled_colors, query_log,
                   query_calls, processed, ret_points, ret_colors, written>>

(* Line 84, the test fails: the entry is passed over. *)
DirSkip ==
    /\ pc = "dir_next"
    /\ dir_pos <= Len(dir_entries)
    /\ ~Eligible(dir_entries[dir_pos].name)
    /\ dir_pos' = dir_pos + 1
    /\ UNCHANGED <<k, pc, error, num_samples, dir_entries, dir_events, dir_written>>
    /\ UNCHANGED <<points, colors, batch_size, sampled_indices, tree, i,
                   final_sampled_points, final_sampled_colors, query_log,
                   query_calls, processed, ret_points, ret_colors, written>>

(* Lines 84-87: the test holds and the file is loaded. *)
DirLoad ==
    /\ pc = "dir_next"
    /\ dir_pos <= Len(dir_entries)
    /\ Eligible(dir_entries[dir_pos].name)
    /\ dir_events' = Append(dir_events, Event("load"))
    /\ pc' = "dir_loaded"
    /\ UNCHANGED <<k, error, num_samples, dir_entries, dir_pos, dir_written>>
    /\ UNCHANGED <<points, colors, batch_size, sampled_indices, tree, i,
                   final_sampled_points, final_sampled_colors, query_log,
                   query_calls, processed, ret_points, ret_colors, written>>

(* Line 88: the sampler is called; its exception is not caught. *)
DirSample ==
    /\ pc = "dir_loaded"
    /\ dir_events' = Append(dir_events, Event("sample"))
    /\ LET n == dir_entries[dir_pos].npoints IN
       IF SamplerError(n, k) # "none"
       THEN /\ pc' = "raised"
            /\ error' = SamplerError(n, k)
            /\ UNCHANGED num_samples
       ELSE /\ pc' = "dir_sampled"
            /\ num_samples' = SamplerCount(n, k)
            /\ UNCHANGED error
    /\ UNCHANGED <<k, dir_entries, dir_pos, dir_written>>
    /\ UNCHANGED <<points, colors, batch_size, sampled_indices, tree, i,
                   final_sampled_points, final_sampled_colors, query_log,
                   query_calls, processed, ret_points, ret_colors, written>>

(* Lines 89-90: save_point_cloud; its exception is not caught either, and a *)
(* write that fails leaves no file.                                         *)
DirSave ==
    /\ pc = "dir_sampled"
    /\ dir_events' = Append(dir_events, Event("save"))
    /\ IF ~SamplerReturnsMx3(dir_entries[dir_pos].npoints, k)
       THEN /\ pc' = "save_raised"
            /\ error' = "RuntimeError"
            /\ UNCHANGED <<dir_pos, dir_written>>
       ELSE /\ \E ok \in BOOLEAN :
                 dir_written' =
                    IF ok
                    THEN dir_written \cup {OutputName(dir_entries[dir_pos].name)}
                    ELSE dir_written
            /\ dir_pos' = dir_pos + 1
            /\ pc' = "dir_next"
            /\ UNCHANGED error
    /\ UNCHANGED <<k, num_samples, dir_entries>>
    /\ UNCHANGED <<points, colors, batch_size, sampled_indices, tree, i,
                   final_sampled_points, final_sampled_colors, query_log,
                   query_calls, processed, ret_points, ret_colors, written>>

(* The listing is exhausted and process_input returns. *)
DirDone ==
    /\ pc = "dir_next"
    /\ dir_pos > Len(dir_entries)
    /\ pc' = "done"
    /\ UNCHANGED <<k, error, num_samples, dir_entries, dir_pos, dir_events,
                   dir_written>>
    /\ UNCHANGED <<points, colors, batch_size, sampled_indices, tree, i,
                   final_sampled_points, final_sampled_colors, query_log,
                   query_calls, processed, ret_points, ret_colors, written>>

NextDir ==
    \/ DirStart
    \/ DirSkip
    \/ DirLoad
    \/ DirSample
    \/ DirSave
    \/ DirDone

SpecDir == InitDir /\ [][NextDir]_vars

-----------------------------------------------------------------------------
(* Properties of one sampler call (specification Spec).                      *)

Returned == pc \in {"returned", "saved", "save_raised"}

InLoopOrAfter == pc = "loop" \/ Returned

(* idx for a single query row, in the shape tree.query gives it for this k. *)
OneRow(row) == [squeezed |-> k = 1, rows |-> <<row>>]

(* C1: for every N and k with 1 <= k <= N and every batch size >= 1 the      *)
(* sampler returns exactly floor(N / k) entries: every batch handles the    *)
(* next anchors of the selection, each anchor exactly once and in order,    *)
(* and the batches together handle num_samples anchors, also when           *)
(* num_samples is not a multiple of the batch size.                         *)
C1_ExactlyFloorNOverK ==
    (1 <= k /\ k <= N) =>
        /\ pc # "raised"
        /\ InLoopOrAfter =>
              /\ Len(final_sampled_points) = Min(i, Len(sampled_indices))
              /\ Len(query_log) = Len(final_sampled_points)
              /\ \A j \in 1..Len(query_log) : query_log[j].anchor = j
        /\ Returned =>
              /\ Len(ret_points) = N \div k
              /\ Len(query_log) = N \div k
              /\ num_samples = N \div k
              /\ (num_samples > 0 => processed = num_samples)

(* A call has returned after at least two batches, the last one short. *)
C1_Witness ==
    /\ 1 <= k /\ k <= N
    /\ pc = "returned"
    /\ query_calls >= 2
    /\ num_samples % batch_size # 0
    /\ Len(ret_points) = num_samples

(* C2: called with 1 <= N < k the sampler computes num_samples = 0, issues   *)
(* no neighbour query, processes no batch, raises no error, can always go   *)
(* on without a batch until it returns, and returns an output of length 0.  *)
C2_EmptyWhenFewerThanK ==
    (1 <= N /\ N < k) =>
        /\ pc # "raised"
        /\ pc # "start" => num_samples = 0
        /\ query_calls = 0
        /\ processed = 0
        /\ query_log = <<>>
        /\ pc \in {"start", "select", "build", "loop"} =>
              ENABLED (ComputeNumSamples \/ SelectAnchors \/ BuildTree \/ Return)
        /\ Returned => (Len(ret_points) = 0 /\ ret_colors \in {None, Some(<<>>)})

(* A call with 1 <= N < k has returned. *)
C2_Witness ==
    /\ 1 <= N /\ N < k
    /\ pc = "returned"
    /\ ret_points = <<>>

(* C3: every call with k < 1 or k > N ends in an InvalidInput error and      *)
(* gives no sampled output.                                                 *)
C3_RejectsKOutsideRange ==
    (k < 1 \/ k > N) =>
        /\ ~Returned
        /\ pc = "raised" => error = "InvalidInput"

(* The value of a colour component lies in [0, 1]. *)
InUnit(c) == (~c.neg \/ c.sq = 0) /\ c.sq <= c.den * ColorScale * ColorScale

(* The value of a colour component is exactly 1. *)
IsOne(c) == ~c.neg /\ c.sq = c.den * ColorScale * ColorScale

(* The value of a colour component is exactly 0. *)
IsZero(c) == c.sq = 0

(* C4: every colour component in the written file lies in [0, 1]; a          *)
(* returned component above 1 is written as 1, one below 0 as 0, and one in *)
(* [0, 1] is written unchanged.                                             *)
C4_WrittenColorsInUnit ==
    (~IsNone(written) /\ ~IsNone(Val(written).colors)) =>
        LET w == Val(Val(written).colors)
            r == Val(ret_colors)
        IN  /\ Len(w) = Len(r)
            /\ \A m \in 1..Len(w) :
                  /\ Len(w[m]) = Len(r[m])
                  /\ \A c \in 1..Len(w[m]) :
                        /\ InUnit(w[m][c])
                        /\ InUnit(r[m][c]) => w[m][c] = r[m][c]
                        /\ (~InUnit(r[m][c]) /\ ~r[m][c].neg) => IsOne(w[m][c])
                        /\ (~InUnit(r[m][c]) /\ r[m][c].neg) => IsZero(w[m][c])

(* A file was written whose colours come from an input with components      *)
(* below 0 and above 1: one component was cut to 1, another kept.           *)
C4_Witness ==
    /\ ~IsNone(written)
    /\ ~IsNone(Val(written).colors)
    /\ \E j \in 1..N : \E c \in 1..3 : Val(colors)[j][c] < 0
    /\ \E m \in 1..Len(Val(ret_colors)) : \E c, d \in 1..3 :
          /\ ~InUnit(Val(ret_colors)[m][c])
          /\ IsOne(Val(Val(written).colors)[m][c])
          /\ InUnit(Val(ret_colors)[m][d])
          /\ Val(ret_colors)[m][d].sq > 0
          /\ Val(Val(written).colors)[m][d] = Val(ret_colors)[m][d]

(* The k neighbours of the j-th query all carry the colour c. *)
UniformNeighbourhood(j, c) ==
    \A r \in 1..Len(query_log[j].row) : Val(colors)[query_log[j].row[r]] = c

(* The value of the aggregated component v equals the input component x:    *)
(* sqrt(v.sq / v.den) = x, in steps of 1 / ColorScale.                      *)
ValueEquals(v, x) == x >= 0 /\ ~v.neg /\ v.sq = x * x * v.den

(* C5: for every anchor whose k neighbours all carry the same colour c, the  *)
(* aggregated colour has three channels and each equals the channel of c    *)
(* exactly, whatever values c has.                                          *)
C5_UniformColourUnchanged ==
    (InLoopOrAfter /\ ~IsNone(colors)) =>
        \A j \in 1..Len(Val(final_sampled_colors)) :
            \A c \in ColorValues :
                UniformNeighbourhood(j, c) =>
                    LET out == Val(final_sampled_colors)[j]
                    IN  /\ Len(out) = 3
                        /\ \A ch \in 1..3 : ValueEquals(out[ch], c[ch])

(* C8: the anchor selection of a call consists of floor(N / k) pairwise      *)
(* distinct indices of the point set.                                       *)
C8_AnchorsDistinctInRange ==
    (pc = "build" \/ InLoopOrAfter) =>
        /\ Len(sampled_indices) = FloorDiv(N, k)
        /\ \A a \in 1..Len(sampled_indices) : sampled_indices[a] \in 1..N
        /\ \A a, b \in 1..Len(sampled_indices) :
              a # b => sampled_indices[a] # sampled_indices[b]

(* A selection of at least two anchors, not in index order, was drawn. *)
C8_Witness ==
    /\ pc = "build"
    /\ Len(sampled_indices) >= 2
    /\ sampled_indices[1] > sampled_indices[2]

(* The sum of component c of the points at the indices of row. *)
NeighbourSum(row, c) ==
    SumOver([r \in 1..Len(row) |-> points[row[r]][c]], 1..Len(row))

(* C9: for every batch size the j-th output entry is the mean, an xyz        *)
(* point, of the k nearest neighbours in the full point set of the j-th     *)
(* selected anchor; the value does not depend on the batch size.            *)
C9_EntryIsMeanOfNeighbours ==
    InLoopOrAfter =>
        \A j \in 1..Len(final_sampled_points) :
            LET row == QueryRow(points, Val(tree), points[sampled_indices[j]], k)
                out == final_sampled_points[j]
            IN  /\ Len(out.num) = 3
                /\ \A c \in 1..3 : out.num[c] * k = out.den * NeighbourSum(row, c)

(* C10: without input colours the colour output is None at every point of    *)
(* the call; with input colours the colour output has, after every batch   *)
(* and at return, as many entries as the point output, and its j-th entry   *)
(* is aggregated over the neighbour indices the j-th point is aggregated    *)
(* over.                                                                    *)
C10_ColoursAlignedWithPoints ==
    /\ IsNone(colors) => (IsNone(final_sampled_colors) /\ IsNone(ret_colors))
    /\ (~IsNone(colors) /\ InLoopOrAfter) =>
          /\ Len(Val(final_sampled_colors)) = Len(final_sampled_points)
          /\ Len(query_log) = Len(final_sampled_points)
          /\ \A j \in 1..Len(query_log) :
                LET idx == OneRow(query_log[j].row)
                IN  /\ final_sampled_points[j] = MeanAxis1(Take(points, idx))[1]
                    /\ Val(final_sampled_colors)[j]
                          = RootMeanSquareAxis1(Take(Val(colors), idx))[1]
    /\ (~IsNone(colors) /\ Returned) =>
          /\ ~IsNone(ret_colors)
          /\ Len(Val(ret_colors)) = Len(ret_points)
          /\ Val(ret_colors) = Val(final_sampled_colors)

(* A call with colours that vary from point to point has returned two       *)
(* entries whose colours differ, after more than one batch.                 *)
C10_Witness ==
    /\ ~IsNone(colors)
    /\ pc = "returned"
    /\ query_calls >= 2
    /\ Len(Val(ret_colors)) >= 2
    /\ Val(ret_colors)[1] # Val(ret_colors)[2]

-----------------------------------------------------------------------------
(* Properties of directory mode (specification SpecDir).                     *)

(* The run was ended by an exception. *)
Failed == pc \in {"raised", "save_raised"}

(* The name ends in .ply or .pcd. *)
HasPointCloudSuffix(name) == name[Len(name)] \in {".ply", ".pcd"}

(* A step of the given kind was run for entry j. *)
StepRun(j, step) ==
    \E e \in 1..Len(dir_events) : dir_events[e] = [file |-> j, step |-> step]

(* An output file exists for entry j. *)
HasArtifact(j) == OutputName(dir_entries[j].name) \in dir_written

(* C6: a failure in one file does not abort the batch: a run is never ended  *)
(* by the failure of a file while a later entry with a point cloud suffix   *)
(* has not been processed.                                                  *)
C6_FailureDoesNotAbort ==
    Failed =>
        \A j \in 1..Len(dir_entries) :
            (j > dir_pos /\ HasPointCloudSuffix(dir_entries[j].name)) =>
                StepRun(j, "load")

(* No step was run for an entry without a point cloud suffix. *)
OnlyEligibleProcessed ==
    \A e \in 1..Len(dir_events) :
        HasPointCloudSuffix(dir_entries[dir_events[e].file].name)

(* The steps of a file are load, sample, save in this order, and a file is  *)
(* loaded only after the save of the file before it has run.                *)
OneFileAtATime ==
    /\ dir_events # <<>> => dir_events[1].step = "load"
    /\ \A e \in 2..Len(dir_events) :
          LET p == dir_events[e - 1]
              q == dir_events[e]
          IN  \/ q.file = p.file /\ p.step = "load" /\ q.step = "sample"
              \/ q.file = p.file /\ p.step = "sample" /\ q.step = "save"
              \/ q.file > p.file /\ p.step = "save" /\ q.step = "load"

(* C7 as claimed: when process_input has returned, an entry has an output    *)
(* file if and only if its name ends in .ply or .pcd; no step was run for   *)
(* the other entries; files are processed one at a time.                    *)
C7_ArtifactIffSuffix ==
    /\ pc = "done" =>
          \A j \in 1..Len(dir_entries) :
              HasArtifact(j) <=> HasPointCloudSuffix(dir_entries[j].name)
    /\ OnlyEligibleProcessed
    /\ OneFileAtATime

(* C7 as amended: an entry has an output file only if its name ends in .ply  *)
(* or .pcd and its load, sample and save steps were all run; every output   *)
(* file belongs to an entry; no step was run for the other entries; files   *)
(* are processed one at a time.                                             *)
C7_ArtifactOnlyIfSuffix ==
    /\ \A j \in 1..Len(dir_entries) :
          HasArtifact(j) =>
              /\ HasPointCloudSuffix(dir_entries[j].name)
              /\ StepRun(j, "load") /\ StepRun(j, "sample") /\ StepRun(j, "save")
    /\ \A o \in dir_written :
          \E j \in 1..Len(dir_entries) : o = OutputName(dir_entries[j].name)
    /\ OnlyEligibleProcessed
    /\ OneFileAtATime

(* A directory run has returned after it passed over an entry without the   *)
(* suffix, wrote the output of one file and then that of a later one.       *)
C7_Witness ==
    /\ pc = "done"
    /\ \E a, b, c \in 1..Len(dir_entries) :
          /\ a < b
          /\ HasArtifact(a) /\ HasArtifact(b)
          /\ ~HasPointCloudSuffix(dir_entries[c].name)
          /\ ~HasArtifact(c)

====
